---- MODULE Spec2Model ----
(***************************************************************************)
(* Model of scripts/dock2tauri.py: the launch controller Dock2Tauri.       *)
(* One behaviour is one process: main() constructs the controller, calls   *)
(* run(), and exits with the code derived from run()'s result.  The        *)
(* container runtime, the file system holding tauri.conf.json and its      *)
(* backup, the probed HTTP service and the packaging tool are the          *)
(* environment: every outcome they can produce is a nondeterministic       *)
(* choice of the action that calls them.  A KeyboardInterrupt can arrive   *)
(* in each phase of the try body of run() (lines 283-296); the tuples in   *)
(* `events` record what the environment did.  The two files may hold       *)
(* anything when the process starts, a backup left by an earlier process   *)
(* included, and containers of earlier processes may still exist.          *)
(***************************************************************************)
EXTENDS Integers, Sequences, FiniteSets, TLC

VARIABLES
    pc,            \* position of the process inside main()/run()
    image,         \* args.image / self.image, a sequence of characters
    host_port,     \* args.host_port / self.host_port
    container_port,\* args.container_port / self.container_port
    build_release, \* args.build / self.build_release
    build_target,  \* args.target / self.build_target
    container_name,\* self.container_name (None before __init__ ran)
    container_id,  \* self.container_id
    containers,    \* container runtime: status of every container
    config_file,   \* content of src-tauri/tauri.conf.json ({} = no file)
    backup_file,   \* content of src-tauri/tauri.conf.json.backup
    attempt,       \* loop variable i of wait_for_service (0 outside the loop)
    pending,       \* value run() is about to return while finally runs
    result,        \* outcome of run(): "none", "True", "False", "raised"
    exit_code,     \* process exit status (-1 while running)
    cleanups,      \* number of cleanup() calls made so far
    cmds,          \* state-changing external commands issued, in order
    events,        \* history: what happened during this process
    config0,       \* history: config_file when the process started
    backup0,       \* history: backup_file when the process started
    containers0    \* history: containers when the process started

vars == <<pc, image, host_port, container_port, build_release, build_target,
          container_name, container_id, containers, config_file,
          backup_file, attempt, pending, result, exit_code, cleanups,
          cmds, events, config0, backup0, containers0>>

\* the launch request and what __init__ derives from it
request == <<image, host_port, container_port, build_release, build_target,
             container_name>>
history == <<config0, backup0, containers0>>

(***************************************************************************)
(* Bounds and program constants                                            *)
(***************************************************************************)
\* cleanup() calls modelled: the one of run()'s finally, plus repeated
\* calls made by a caller after run() has returned
MaxCleanups == 2

\* range(30) of wait_for_service
MaxAttempts == 30

None == "None"

\* image references, character by character
nginx_alpine == <<"n", "g", "i", "n", "x", ":", "a", "l", "p", "i", "n", "e">>
r_w_1 == <<"r", "/", "w", ":", "1">>
msvc == "x86_64-pc-windows-msvc"

\* the command lines main() is started with (argparse, 309-344); the ports
\* are whatever integers the user typed
Req(i, hp, cp, b, t) ==
    [image |-> i, host_port |-> hp, container_port |-> cp, build |-> b, target |-> t]

\* requests explored with containers of earlier processes still around
LeftoverRequests == { Req(nginx_alpine, 8088, 80, FALSE, None),
                      Req(r_w_1, 80, 8080, TRUE, msvc) }
\* requests explored on a runtime without such containers
Requests == LeftoverRequests \cup
            { Req(nginx_alpine, 3000, 80, TRUE, None),
              Req(r_w_1, 8080, 80, FALSE, msvc),
              Req(nginx_alpine, 0, 80, FALSE, None) }

\* c_port: a container of another name that publishes host_port
\* c_name: a container left over under self.container_name
\* c_new : the container this process's `docker run` creates
Cids == {"c_port", "c_name", "c_new"}
Status == {"Absent", "Created", "Running", "Stopped", "Removed"}
Exists(c) == containers[c] \in {"Created", "Running", "Stopped"}

(***************************************************************************)
(* Strings                                                                 *)
(***************************************************************************)
Digit(d) == CASE d = 0 -> "0" [] d = 1 -> "1" [] d = 2 -> "2" [] d = 3 -> "3"
              [] d = 4 -> "4" [] d = 5 -> "5" [] d = 6 -> "6" [] d = 7 -> "7"
              [] d = 8 -> "8" [] d = 9 -> "9"

RECURSIVE str(_)
str(n) == IF n < 10 THEN <<Digit(n)>> ELSE str(n \div 10) \o <<Digit(n % 10)>>

RECURSIVE split_first(_, _)
\* s.split(sep)[0]
split_first(s, sep) ==
    IF s = <<>> \/ Head(s) = sep THEN <<>>
    ELSE <<Head(s)>> \o split_first(Tail(s), sep)

RECURSIVE strip_chars(_, _)
\* ''.join(c for c in s if c not in bad)
strip_chars(s, bad) ==
    IF s = <<>> THEN <<>>
    ELSE (IF Head(s) \in bad THEN <<>> ELSE <<Head(s)>>) \o strip_chars(Tail(s), bad)

Alnum == {"a", "b", "c", "d", "e", "f", "g", "h", "i", "j", "k", "l", "m",
          "n", "o", "p", "q", "r", "s", "t", "u", "v", "w", "x", "y", "z",
          "0", "1", "2", "3", "4", "5", "6", "7", "8", "9"}

RECURSIVE keep_alnum(_)
\* ''.join(c for c in s if c.isalnum())
keep_alnum(s) ==
    IF s = <<>> THEN <<>>
    ELSE (IF Head(s) \in Alnum THEN <<Head(s)>> ELSE <<>>) \o keep_alnum(Tail(s))

ProductNameBad == {"/", "\\", ":", "*", "?", "\"", "<", ">", "|"}

(***************************************************************************)
(* The document update_tauri_config writes                                 *)
(***************************************************************************)
\* the dict literal; dev_url is the value of build.devUrl
config(img, dev_url) ==
    [ productName |-> <<"Dock2Tauri - ">> \o strip_chars(split_first(img, ":"), ProductNameBad),
      version     |-> "1.0.0",
      identifier  |-> <<"com.dock2tauri.">> \o keep_alnum(img),
      build       |-> [ beforeBuildCommand |-> "",
                        beforeDevCommand   |-> "",
                        devUrl             |-> dev_url,
                        frontendDist       |-> "../app" ],
      app         |-> [ security |-> [ csp |-> None ],
                        windows  |-> << [ title      |-> <<"Dock2Tauri - ">> \o img,
                                          width      |-> 1200,
                                          height     |-> 800,
                                          minWidth   |-> 600,
                                          minHeight  |-> 400,
                                          resizable  |-> TRUE,
                                          fullscreen |-> FALSE ] >> ],
      bundle      |-> [ active   |-> TRUE,
                        targets  |-> <<"appimage", "deb", "rpm">>,
                        category |-> "DeveloperTool",
                        longDescription |-> <<"Running ">> \o img \o <<" as desktop application">> ],
      plugins     |-> {} ]

TauriConfig_default_port(img, port) ==
    config(img, <<"http://localhost:">> \o str(8088))

TauriConfig(img, port) ==
    config(img, <<"http://localhost:">> \o str(port))

\* documents found at the two paths before the process starts
UserConfig ==
    [ config(<<"m", "y", "a", "p", "p">>, <<"http://localhost:", "1", "4", "2", "0">>)
        EXCEPT !.productName = <<"MyApp">>, !.version = "0.3.1",
               !.identifier = <<"com.my.app">> ]
StaleBackup ==
    [ config(<<"o", "l", "d">>, <<"http://localhost:", "3", "0", "0", "0">>)
        EXCEPT !.productName = <<"OldApp">>, !.version = "0.0.9",
               !.identifier = <<"com.old.app">> ]

\* what is left of the file when json.dump fails part-way
Truncated ==
    [ config(<<>>, <<>>) EXCEPT !.productName = <<>>, !.version = "",
                                !.identifier = <<>>, !.app.windows = <<>> ]

(***************************************************************************)
(* Initial state: main() has parsed the command line (309-344)             *)
(***************************************************************************)
\* the runtime before the process starts; two containers cannot both be
\* running with the same host port published
Leftovers(r) ==
    { f \in [Cids -> Status] :
        /\ f["c_port"] \in {"Absent", "Running"}
        /\ f["c_name"] \in {"Absent", "Running", "Stopped"}
        /\ ~(f["c_port"] = "Running" /\ f["c_name"] = "Running")
        /\ f["c_new"] = "Absent"
        /\ r \notin LeftoverRequests => (f["c_port"] = "Absent" /\ f["c_name"] = "Absent") }

InitWith(R) ==
    /\ pc = "main"
    /\ \E r \in R :
         /\ image = r.image
         /\ host_port = r.host_port
         /\ container_port = r.container_port
         /\ build_release = r.build
         /\ build_target = r.target
         /\ containers \in Leftovers(r)
    /\ container_name = None
    /\ container_id = None
    /\ config_file \in { {}, {UserConfig} }
    /\ backup_file \in { {}, {StaleBackup} }
    /\ attempt = 0
    /\ pending = "none"
    /\ result = "none"
    /\ exit_code = -1
    /\ cleanups = 0
    /\ cmds = <<>>
    /\ events = {}
    /\ config0 = config_file
    /\ backup0 = backup_file
    /\ containers0 = containers

Init == InitWith(Requests)

(***************************************************************************)
(* Dock2Tauri.__init__ (44-54), called at 351                              *)
(***************************************************************************)
RECURSIVE replace(_, _, _)
\* s.replace(old, new) for a one-character old
replace(s, old, new) ==
    IF s = <<>> THEN <<>>
    ELSE <<(IF Head(s) = old THEN new ELSE Head(s))>> \o replace(Tail(s), old, new)

\* a variant of line 48 that forgets the '/' of an image reference
container_name_of_colon_only(img, port) ==
    <<"d", "o", "c", "k", "2", "t", "a", "u", "r", "i", "-">>
        \o replace(img, ":", "-") \o <<"-">> \o str(port)

\* line 48: f"dock2tauri-{image.replace(':', '-').replace('/', '-')}-{host_port}"
container_name_of(img, port) ==
    <<"d", "o", "c", "k", "2", "t", "a", "u", "r", "i", "-">>
        \o replace(replace(img, ":", "-"), "/", "-") \o <<"-">> \o str(port)

\* no argument is checked: every request becomes a controller and main()
\* calls run() on it (351-353)
construct ==
    /\ pc = "main"
    /\ pc' = "check_dependencies"
    /\ container_name' = container_name_of(image, host_port)
    /\ container_id' = None
    /\ UNCHANGED <<image, host_port, container_port, build_release,
                   build_target, containers, config_file, backup_file,
                   attempt, pending, result, exit_code, cleanups, cmds,
                   events, history>>

(***************************************************************************)
(* run(): the try statement of lines 283-304                               *)
(***************************************************************************)
\* a variant of run() without the finally clause
run_return_no_finally(v, ev) ==
    /\ pc' = "returned"
    /\ pending' = v
    /\ events' = events \cup ev

\* `return v` inside the try body: the finally clause runs first
run_return(v, ev) ==
    /\ pc' = "cleanup"
    /\ pending' = v
    /\ events' = events \cup ev

\* except KeyboardInterrupt (298-299): logged, falls through to `return True`
run_except_KeyboardInterrupt(phase) ==
    run_return("True", {<<"KeyboardInterrupt", phase>>})

\* except Exception (300-302): return False
run_except_Exception(phase) ==
    run_return("False", {<<"Exception", phase>>})

\* the try body goes on with the next statement
run_next(next, ev) ==
    /\ pc' = next
    /\ pending' = pending
    /\ events' = events \cup ev

\* a variant of 289-290 that goes on whatever launch_container() returned
run_after_launch_container_unchecked(ret, ev) == run_next("wait_for_service", ev)

\* lines 289-290: if not self.launch_container(): return False
run_after_launch_container(ret, ev) ==
    IF ret = "False" THEN run_return("False", ev)
    ELSE run_next("wait_for_service", ev)

\* line 292: self.wait_for_service() - the returned value is discarded
run_after_wait_for_service(ret, ev) == run_next("update_tauri_config", ev)

\* line 293: self.update_tauri_config() - the returned value is discarded
run_after_update_tauri_config(ret, ev) == run_next("launch_tauri", ev)

\* a variant of line 296 that returns False when launch_tauri() did
run_after_launch_tauri_checked(ret, ev) == run_return(ret, ev)

\* line 296: self.launch_tauri() - the returned value is discarded, the try
\* body ends and run() returns True at 306 after the finally clause
run_after_launch_tauri(ret, ev) == run_return("True", ev)

(***************************************************************************)
(* check_dependencies (56-74), called at 284                               *)
(***************************************************************************)
check_dependencies ==
    /\ pc = "check_dependencies"
    /\ \E outcome \in {"no_docker", "daemon_down", "ok", "ok_no_cargo",
                       "exception", "interrupt"} :
         CASE outcome \in {"no_docker", "daemon_down"} ->
                run_return("False", {<<"check_dependencies", outcome>>})
           [] outcome \in {"ok", "ok_no_cargo"} ->
                run_next("stop_existing_containers", {})
           [] outcome = "exception" ->
                run_except_Exception("check_dependencies")
           [] outcome = "interrupt" ->
                run_except_KeyboardInterrupt("check_dependencies")
    /\ UNCHANGED <<request, container_id, containers, config_file,
                   backup_file, attempt, result, exit_code, cleanups, cmds,
                   history>>

(***************************************************************************)
(* stop_existing_containers (84-112), called at 287                        *)
(***************************************************************************)
\* docker ps -q --filter publish=<host_port>: running containers on the port
publishing == { c \in Cids : containers[c] = "Running" }

\* the ids of a set of containers in the order docker lists them
RECURSIVE listing(_)
listing(S) ==
    IF S = {} THEN <<>>
    ELSE LET c == IF "c_new" \in S THEN "c_new"
                   ELSE IF "c_name" \in S THEN "c_name" ELSE "c_port"
         IN  <<c>> \o listing(S \ {c})

docker_stop_cmds(S) == [ i \in 1..Cardinality(S) |-> <<"docker stop", listing(S)[i]>> ]

\* a variant in which docker stop is given ids that match no container
stopped_none(f, S) == f

\* status after `docker stop` succeeded on the containers of S
stopped(f, S) == [ c \in Cids |-> IF c \in S /\ f[c] = "Running" THEN "Stopped" ELSE f[c] ]

\* a variant in which docker rm is given a name that matches no container
docker_rm_none(f, c) == f

\* `docker rm <c>`: removes a container that exists and is not running
docker_rm(f, c) ==
    IF f[c] \in {"Created", "Stopped"} THEN [f EXCEPT ![c] = "Removed"] ELSE f

\* a variant without the test of line 106
name_listed_always(f) == TRUE

\* `self.container_name in result.stdout` of docker ps -a --filter name=
name_listed(f) == f["c_name"] \in {"Created", "Running", "Stopped"}

stop_existing_containers ==
    /\ pc = "stop_existing_containers"
    /\ \E outcome \in {"done", "exception", "interrupt"} :
       \E tried \in SUBSET publishing : \E ok \in SUBSET tried : \E rm_ok \in BOOLEAN :
         LET after_stop == stopped(containers, ok)
             named == name_listed(after_stop)
             \* a docker stop / docker rm that did not do its work; the
             \* code does not look at the return codes
             failed == IF ok # tried \/ (named /\ ~rm_ok)
                       THEN {<<"stop_existing_containers", "command_failed">>}
                       ELSE {}
         IN
         CASE outcome = "done" ->
                /\ tried = publishing
                /\ containers' = IF named /\ rm_ok
                                 THEN docker_rm(after_stop, "c_name")
                                 ELSE after_stop
                /\ cmds' = cmds \o docker_stop_cmds(tried)
                                \o (IF named THEN << <<"docker rm", "c_name">> >> ELSE <<>>)
                /\ run_next("launch_container", failed)
           [] outcome = "exception" ->
                \* except Exception (111-112): warning only
                /\ rm_ok
                /\ containers' = after_stop
                /\ cmds' = cmds \o docker_stop_cmds(tried)
                /\ run_next("launch_container", {<<"stop_existing_containers", "warning">>})
           [] outcome = "interrupt" ->
                /\ rm_ok
                /\ containers' = after_stop
                /\ cmds' = cmds \o docker_stop_cmds(tried)
                /\ run_except_KeyboardInterrupt("stop_existing_containers")
    /\ UNCHANGED <<request, container_id, config_file, backup_file,
                   attempt, result, exit_code, cleanups, history>>

(***************************************************************************)
(* launch_container (114-138), called at 289                               *)
(***************************************************************************)
launch_container ==
    /\ pc = "launch_container"
    /\ \E outcome \in {"ok", "error", "error_created", "exception",
                       "interrupt", "interrupt_started"} :
         LET name_conflict == Exists("c_name")
             port_conflict == publishing # {}
         IN
         CASE outcome = "ok" ->
                \* docker run -d succeeded: the id is recorded (130)
                /\ ~name_conflict /\ ~port_conflict
                /\ containers' = [containers EXCEPT !["c_new"] = "Running"]
                /\ container_id' = "c_new"
                /\ cmds' = Append(cmds, <<"docker run", "c_new">>)
                /\ run_after_launch_container("True", {})
           [] outcome = "error" ->
                \* CalledProcessError, nothing created (name taken, no image)
                /\ containers' = containers
                /\ container_id' = container_id
                /\ cmds' = Append(cmds, <<"docker run", "c_new">>)
                /\ run_after_launch_container("False", {<<"launch_container", "failed">>})
           [] outcome = "error_created" ->
                \* CalledProcessError after the container was created
                \* (the host port could not be bound)
                /\ ~name_conflict
                /\ containers' = [containers EXCEPT !["c_new"] = "Created"]
                /\ container_id' = container_id
                /\ cmds' = Append(cmds, <<"docker run", "c_new">>)
                /\ run_after_launch_container("False", {<<"launch_container", "failed">>})
           [] outcome = "exception" ->
                /\ UNCHANGED <<containers, container_id, cmds>>
                /\ run_except_Exception("launch_container")
           [] outcome = "interrupt" ->
                /\ UNCHANGED <<containers, container_id, cmds>>
                /\ run_except_KeyboardInterrupt("launch_container")
           [] outcome = "interrupt_started" ->
                \* interrupted after the runtime started the container
                \* and before line 130 recorded its id
                /\ ~name_conflict /\ ~port_conflict
                /\ containers' = [containers EXCEPT !["c_new"] = "Running"]
                /\ container_id' = container_id
                /\ cmds' = Append(cmds, <<"docker run", "c_new">>)
                /\ run_except_KeyboardInterrupt("launch_container")
    /\ UNCHANGED <<request, config_file, backup_file, attempt,
                   result, exit_code, cleanups, history>>

(***************************************************************************)
(* wait_for_service (140-159), called at 292: one pass of the loop body    *)
(***************************************************************************)
\* a variant whose loop gives up one pass early
range_exhausted_early(i) == i >= MaxAttempts - 1

\* `for i in range(30)` (144): the loop ends when i has gone through 0..29
range_exhausted(i) == i >= MaxAttempts

wait_for_service ==
    /\ pc = "wait_for_service"
    /\ \/ /\ ~range_exhausted(attempt)
          /\ \E outcome \in {"status_200", "status_other", "error",
                             "interrupt_probe", "interrupt_sleep"} :
               CASE outcome = "status_200" ->
                      \* return True (150-152); run() ignores the value
                      /\ attempt' = 0
                      /\ run_after_wait_for_service("True", {<<"wait_for_service", "ready">>})
                 [] outcome = "status_other" ->
                      \* a response whose status is not 200: next pass
                      /\ attempt' = attempt + 1
                      /\ run_next("wait_for_service", {})
                 [] outcome = "error" ->
                      \* urlopen raised: bare except (153-155), sleep, next pass
                      /\ attempt' = attempt + 1
                      /\ run_next("wait_for_service", {})
                 [] outcome = "interrupt_probe" ->
                      \* KeyboardInterrupt raised inside the try of 145-152:
                      \* the bare except of 153 catches it as well
                      /\ attempt' = attempt + 1
                      /\ run_next("wait_for_service",
                                  {<<"KeyboardInterrupt", "wait_for_service">>})
                 [] outcome = "interrupt_sleep" ->
                      \* KeyboardInterrupt during time.sleep(1) of the handler
                      /\ attempt' = 0
                      /\ run_except_KeyboardInterrupt("wait_for_service")
       \/ /\ range_exhausted(attempt)
          \* the loop is exhausted: warning, return False (157-159)
          /\ attempt' = 0
          /\ run_after_wait_for_service("False", {<<"wait_for_service", "timeout">>})
    /\ UNCHANGED <<request, container_id, containers, config_file,
                   backup_file, result, exit_code, cleanups, cmds, history>>

(***************************************************************************)
(* update_tauri_config (161-217), called at 293                            *)
(***************************************************************************)
\* a variant that keeps an existing backup instead of overwriting it
copy_backup_keep_old(cfg, bak) == IF cfg # {} /\ bak = {} THEN cfg ELSE bak

\* a variant that keeps the earlier backup next to the new one
copy_backup_versioned(cfg, bak) == IF cfg # {} THEN cfg \cup bak ELSE bak

\* shutil.copy2(config_file, backup_file) when the config file exists (167-169)
copy_backup(cfg, bak) == IF cfg # {} THEN cfg ELSE bak

update_tauri_config ==
    /\ pc = "update_tauri_config"
    /\ \E outcome \in {"ok", "open_failed", "dump_failed", "copy_exception",
                       "interrupt", "interrupt_write"} :
         CASE outcome = "ok" ->
                \* return True (214); run() ignores the value
                /\ backup_file' = copy_backup(config_file, backup_file)
                /\ config_file' = {TauriConfig(image, host_port)}
                /\ run_after_update_tauri_config("True", {<<"update_tauri_config", "written">>})
           [] outcome = "open_failed" ->
                \* open(..., 'w') raised: return False (215-217), ignored at 293
                /\ backup_file' = copy_backup(config_file, backup_file)
                /\ config_file' = config_file
                /\ run_after_update_tauri_config("False", {<<"update_tauri_config", "failed">>})
           [] outcome = "dump_failed" ->
                \* json.dump raised after open truncated the file
                /\ backup_file' = copy_backup(config_file, backup_file)
                /\ config_file' = {Truncated}
                /\ run_after_update_tauri_config("False", {<<"update_tauri_config", "failed">>})
           [] outcome = "copy_exception" ->
                \* shutil.copy2 raised: outside the try of 210, reaches run()
                /\ config_file # {}
                /\ UNCHANGED <<backup_file, config_file>>
                /\ run_except_Exception("update_tauri_config")
           [] outcome = "interrupt" ->
                /\ UNCHANGED <<backup_file, config_file>>
                /\ run_except_KeyboardInterrupt("update_tauri_config")
           [] outcome = "interrupt_write" ->
                \* interrupted while writing: except Exception does not catch it
                /\ backup_file' = copy_backup(config_file, backup_file)
                /\ config_file' = {Truncated}
                /\ run_except_KeyboardInterrupt("update_tauri_config")
    /\ UNCHANGED <<request, container_id, containers, attempt,
                   result, exit_code, cleanups, cmds, history>>

(***************************************************************************)
(* launch_tauri (219-256), called at 296                                   *)
(***************************************************************************)
\* if self.build_target: None and the empty string are false
truthy(t) == t \notin {None, ""}

\* a variant that never passes the target on
cmd_no_target(release, target) ==
    IF release THEN <<"cargo", "tauri", "build">> ELSE <<"cargo", "tauri", "dev">>

\* the argv chosen at 231-238
cmd(release, target) ==
    IF release
    THEN IF truthy(target)
         THEN <<"cargo", "tauri", "build", "--target", target>>
         ELSE <<"cargo", "tauri", "build">>
    ELSE <<"cargo", "tauri", "dev">>

launch_tauri ==
    /\ pc = "launch_tauri"
    /\ \E outcome \in {"ok", "cargo_missing", "failed", "exception", "interrupt"} :
         CASE outcome = "ok" ->
                \* subprocess.run(cmd, check=True) returned: return True (256)
                /\ cmds' = Append(cmds, cmd(build_release, build_target))
                /\ run_after_launch_tauri("True", {<<"launch_tauri", "ok">>})
           [] outcome = "cargo_missing" ->
                \* return False (243-247), ignored at 296
                /\ cmds' = cmds
                /\ run_after_launch_tauri("False", {<<"launch_tauri", "cargo_missing">>})
           [] outcome = "failed" ->
                \* CalledProcessError: return False (249-251), ignored at 296
                /\ cmds' = Append(cmds, cmd(build_release, build_target))
                /\ run_after_launch_tauri("False", {<<"launch_tauri", "failed">>})
           [] outcome = "exception" ->
                \* os.chdir raised: not caught in launch_tauri
                /\ cmds' = cmds
                /\ run_except_Exception("launch_tauri")
           [] outcome = "interrupt" ->
                \* except KeyboardInterrupt (252-254): return True
                /\ cmds' = Append(cmds, cmd(build_release, build_target))
                /\ run_after_launch_tauri("True", {<<"KeyboardInterrupt", "launch_tauri">>})
    /\ UNCHANGED <<request, container_id, containers, config_file,
                   backup_file, attempt, result, exit_code, cleanups, history>>

(***************************************************************************)
(* cleanup (258-276)                                                       *)
(***************************************************************************)
\* lines 262-270: docker stop, docker rm of self.container_id; neither call
\* checks the return code, an exception of either is caught and logged
cleanup_containers(f, cid, stop, rm) ==
    IF cid = None THEN f
    ELSE LET s1 == IF stop = "ok" THEN stopped(f, {cid}) ELSE f
         IN  IF stop # "exception" /\ rm = "ok" THEN docker_rm(s1, cid) ELSE s1

\* a variant without the `if self.container_id` guard of line 262
cleanup_cmds_unguarded(cid, stop) ==
    IF stop = "exception" THEN << <<"docker stop", cid>> >>
    ELSE << <<"docker stop", cid>>, <<"docker rm", cid>> >>

cleanup_cmds(cid, stop) ==
    IF cid = None THEN <<>>
    ELSE IF stop = "exception" THEN << <<"docker stop", cid>> >>
    ELSE << <<"docker stop", cid>>, <<"docker rm", cid>> >>

\* lines 272-276: backup_file.rename(config_file) when the backup exists;
\* the call is not inside a try statement
cleanup_raises(bak, rename) == bak # {} /\ rename = "fail"
restored_config(cfg, bak, rename) == IF bak # {} /\ rename = "ok" THEN bak ELSE cfg
\* a variant that copies the backup back and leaves it in place
restored_backup_kept(bak, rename) == bak

restored_backup(bak, rename) == IF bak # {} /\ rename = "ok" THEN {} ELSE bak

\* what went wrong inside one call of cleanup()
cleanup_events(cid, f, stop, rm, bak, rename) ==
    (IF cid # None /\ (stop # "ok" \/ rm # "ok")
     THEN {<<"cleanup", "container_step_failed">>} ELSE {})
    \cup (IF cleanup_raises(bak, rename) THEN {<<"cleanup", "raised">>} ELSE {})

cleanup(stop, rm, rename) ==
    /\ containers' = cleanup_containers(containers, container_id, stop, rm)
    /\ cmds' = cmds \o cleanup_cmds(container_id, stop)
    /\ config_file' = restored_config(config_file, backup_file, rename)
    /\ backup_file' = restored_backup(backup_file, rename)
    /\ cleanups' = cleanups + 1
    /\ events' = events \cup cleanup_events(container_id, containers, stop, rm,
                                            backup_file, rename)

\* finally: self.cleanup() (303-304), then run() returns the pending value
\* (285, 290, 302, 306) unless cleanup() raised
run_finally ==
    /\ pc = "cleanup"
    /\ \E stop \in {"ok", "fail", "exception"}, rm \in {"ok", "fail"},
          rename \in {"ok", "fail"} :
         /\ cleanup(stop, rm, rename)
         /\ result' = IF cleanup_raises(backup_file, rename) THEN "raised" ELSE pending
    /\ pc' = "returned"
    /\ UNCHANGED <<request, container_id, attempt, pending, exit_code,
                   history>>

\* a caller invokes cleanup() once more after run() is over; an exception
\* of that call ends the process with status 1
cleanup_again ==
    /\ pc = "returned"
    /\ cleanups < MaxCleanups
    /\ \E stop \in {"ok", "fail", "exception"}, rm \in {"ok", "fail"},
          rename \in {"ok", "fail"} :
         /\ cleanup(stop, rm, rename)
         /\ IF cleanup_raises(backup_file, rename)
            THEN pc' = "exited" /\ exit_code' = 1
            ELSE pc' = "returned" /\ exit_code' = exit_code
    /\ UNCHANGED <<request, container_id, attempt, pending, result,
                   history>>

(***************************************************************************)
(* main (351-354)                                                          *)
(***************************************************************************)
\* sys.exit(0 if success else 1); an exception out of run() is not caught
\* and ends the interpreter with status 1
ExitCode(r) == IF r = "True" THEN 0 ELSE 1

main_exit ==
    /\ pc = "returned"
    /\ pc' = "exited"
    /\ exit_code' = ExitCode(result)
    /\ UNCHANGED <<request, container_id, containers, config_file,
                   backup_file, attempt, pending, result, cleanups, cmds,
                   events, history>>

Next ==
    \/ construct
    \/ check_dependencies
    \/ stop_existing_containers
    \/ launch_container
    \/ wait_for_service
    \/ update_tauri_config
    \/ launch_tauri
    \/ run_finally
    \/ cleanup_again
    \/ main_exit

Spec == Init /\ [][Next]_vars

(***************************************************************************)
(* Construction alone, over a wider set of command lines                   *)
(***************************************************************************)
\* image references: name:tag, repository path, name@digest, registry host
\* with a port, and names with the separators '.', '_' and '-'
ArgImages == { nginx_alpine, r_w_1,
               <<"a", "@", "s", ":", "1">>,
               <<"r", ".", "i", "o", ":", "5", "/", "a">>,
               <<"a", "_", "b">>, <<"a", ".", "b">>, <<"a", "-", "b">>, <<"a">> }
ArgPorts == {1, 80, 8088, 65535}

ArgRequests == { Req(i, hp, cp, FALSE, None) :
                   i \in ArgImages, hp \in ArgPorts, cp \in {1, 80, 65535} }

SpecArgs == InitWith(ArgRequests) /\ [][construct]_vars

(***************************************************************************)
(* Properties                                                              *)
(***************************************************************************)
Phases == {"check_dependencies", "stop_existing_containers", "launch_container",
           "wait_for_service", "update_tauri_config", "launch_tauri"}

run_over == pc \in {"returned", "exited"}
interrupted == \E p \in Phases : <<"KeyboardInterrupt", p>> \in events
unexpected == \E p \in Phases : <<"Exception", p>> \in events
dependency_failed == \E o \in {"no_docker", "daemon_down"} :
                        <<"check_dependencies", o>> \in events
launch_failed == <<"launch_container", "failed">> \in events
write_failed == <<"update_tauri_config", "failed">> \in events
update_returned == write_failed \/ <<"update_tauri_config", "written">> \in events
cleanup_raised == <<"cleanup", "raised">> \in events
\* this step is one call of cleanup()
cleanup_step == cleanups' = cleanups + 1

\* C1: whichever step of run() failed or was interrupted, cleanup() has been
\* executed by the time run() is over.
C1_CleanupAlwaysRuns == run_over => cleanups >= 1

C1_Witness ==
    /\ run_over
    /\ cleanups >= 1
    /\ <<"KeyboardInterrupt", "launch_container">> \in events

\* C2 (as claimed): once an interrupt has been delivered in any phase of the
\* try body, no further step of that or a later phase runs: the controller
\* is in cleanup() or past it.
C2_InterruptShortCircuits ==
    interrupted => pc \in {"cleanup", "returned", "exited"}

\* C3 (as claimed): when check_dependencies() or launch_container() failed,
\* run() returns False and the process exits with code 1.
C3_FatalFailuresReturnFalse ==
    (dependency_failed \/ launch_failed) =>
        /\ run_over => result = "False"
        /\ pc = "exited" => exit_code = 1

\* C4 (as claimed): a failed write of tauri.conf.json makes the process
\* exit with code 1.
C4_WriteFailureIsFatal ==
    (pc = "exited" /\ write_failed) => exit_code = 1

\* C5: a readiness timeout, a missing cargo or a failed packaging run do not
\* by themselves fail the run: when nothing else failed, run() returns True
\* and the process exits with code 0.
C5_SoftFailuresExitZero ==
    ( /\ \/ <<"wait_for_service", "timeout">> \in events
         \/ <<"launch_tauri", "cargo_missing">> \in events
         \/ <<"launch_tauri", "failed">> \in events
      /\ ~unexpected /\ ~write_failed /\ ~cleanup_raised ) =>
        /\ run_over => result = "True"
        /\ pc = "exited" => exit_code = 0

C5_Witness ==
    /\ pc = "exited"
    /\ <<"wait_for_service", "timeout">> \in events
    /\ <<"launch_tauri", "cargo_missing">> \in events
    /\ exit_code = 0

\* C6 (as claimed): when the dependency check fails no container command is
\* issued and the config file and its backup slot stay as they were when
\* the process started.
C6_DependencyFailureNoSideEffect ==
    dependency_failed =>
        /\ cmds = <<>>
        /\ config_file = config0
        /\ backup_file = backup0

\* C7: when update_tauri_config() ran with an existing config file, the
\* backup slot holds that file's content, and once cleanup() has returned
\* the config file holds it again; a cleanup() that finds no backup leaves
\* the config file as it is.
C7_BackupHeld ==
    (pc = "launch_tauri" /\ config0 # {}) => backup_file = config0

C7_Restored ==
    (run_over /\ update_returned /\ config0 # {} /\ ~cleanup_raised) =>
        config_file = config0

C7_NoBackupUntouched ==
    (cleanup_step /\ backup_file = {}) => config_file' = config_file

C7_BackupRestoreRoundTrip ==
    /\ [](C7_BackupHeld /\ C7_Restored)
    /\ [][C7_NoBackupUntouched]_vars

C7_Witness ==
    /\ pc = "exited"
    /\ <<"update_tauri_config", "written">> \in events
    /\ config0 = {UserConfig}
    /\ backup0 = {StaleBackup}
    /\ config_file = {UserConfig}
    /\ backup_file = {}

\* C8 (as claimed): no failure of a cleanup() step changes what run()
\* returns or the exit code: run() returns the value that was pending when
\* the finally clause started.
C8_TeardownNeverEscalates ==
    /\ run_over => result = pending
    /\ pc = "exited" => exit_code = ExitCode(pending)

\* C9: a cleanup() call with container_id None issues no docker stop/rm and
\* leaves the container runtime as it is; one that finds no backup leaves
\* the config file and the backup slot as they are and raises nothing; with
\* both it changes nothing at all.
cleanup_step_returns ==
    /\ pc = "cleanup" => result' = pending
    /\ pc = "returned" => pc' = "returned" /\ exit_code' = exit_code

C9_Step ==
    cleanup_step =>
        /\ container_id = None => (cmds' = cmds /\ containers' = containers)
        /\ backup_file = {} =>
              /\ config_file' = config_file
              /\ backup_file' = backup_file
              /\ cleanup_step_returns

C9_CleanupNoOp == [][C9_Step]_vars

C9_Witness ==
    /\ pc = "returned"
    /\ cleanups >= 1
    /\ container_id = None
    /\ backup0 = {}
    /\ config0 = {UserConfig}
    /\ config_file = config0
    /\ cmds = <<>>

\* C10: a cleanup() call that follows a cleanup() whose steps all succeeded
\* raises nothing, leaves the exit code alone, and leaves the container
\* runtime, the config file and the backup slot as the first call left them.
first_cleanup_succeeded ==
    /\ cleanups >= 1
    /\ ~cleanup_raised
    /\ <<"cleanup", "container_step_failed">> \notin events

C10_Step ==
    (cleanup_step /\ first_cleanup_succeeded) =>
        /\ pc' = "returned"
        /\ exit_code' = exit_code
        /\ result' = result
        /\ containers' = containers
        /\ config_file' = config_file
        /\ backup_file' = backup_file

C10_DoubleTeardown == [][C10_Step]_vars

C10_Witness ==
    /\ pc = "returned"
    /\ cleanups = 2
    /\ container_id = "c_new"
    /\ containers["c_new"] = "Removed"
    /\ first_cleanup_succeeded
    /\ config0 # {}
    /\ config_file = config0

\* C11: wait_for_service() stops probing at the first answer with status
\* 200; otherwise every pass of the loop is one more probe, the timeout is
\* reported after exactly MaxAttempts probes and never together with
\* success, and in both cases run() goes on to update_tauri_config().
ready == <<"wait_for_service", "ready">> \in events
timed_out == <<"wait_for_service", "timeout">> \in events

C11_Step ==
    pc = "wait_for_service" =>
        /\ ready' => (attempt < MaxAttempts /\ pc' = "update_tauri_config")
        /\ timed_out' => (attempt = MaxAttempts /\ pc' = "update_tauri_config")
        /\ pc' = "wait_for_service" => attempt' = attempt + 1

C11_BoundedPolling ==
    /\ [](attempt <= MaxAttempts /\ ~(ready /\ timed_out))
    /\ [][C11_Step]_vars

C11_Witness ==
    /\ pc = "update_tauri_config"
    /\ timed_out
    /\ ~ready

\* stop_existing_containers() has just returned, without an exception and
\* with every docker stop / docker rm it issued having done its work
reclaim_done ==
    /\ pc = "launch_container"
    /\ <<"stop_existing_containers", "warning">> \notin events
    /\ <<"stop_existing_containers", "command_failed">> \notin events

Old == {"c_port", "c_name"}

C13_Step ==
    ( /\ pc = "stop_existing_containers"
      /\ \A c \in Cids : containers[c] \notin {"Created", "Running", "Stopped"} ) =>
        /\ cmds' = cmds
        /\ containers' = containers
        /\ <<"stop_existing_containers", "command_failed">> \notin events'
        /\ \/ pc' = "launch_container"
           \/ <<"KeyboardInterrupt", "stop_existing_containers">> \in events'

running == { c \in Cids : containers[c] = "Running" }

C14_StartStep ==
    (containers["c_new"] # "Running" /\ containers'["c_new"] = "Running")
        => running = {}

C14_OneInstancePerPort ==
    /\ [](Cardinality(running) <= 1 /\ (reclaim_done => running = {}))
    /\ [][C14_StartStep]_vars

C14_Witness ==
    /\ containers0["c_port"] = "Running"
    /\ containers["c_port"] = "Stopped"
    /\ containers["c_new"] = "Running"
    /\ running = {"c_new"}

\* C15 (as claimed): once run() is over, the instance created by this
\* run's docker run is neither created, running nor stopped any more.
C15_InstanceDestroyed ==
    run_over => containers["c_new"] \notin {"Created", "Running", "Stopped"}

\* C16: the instance name is dock2tauri-<image with every ':' and '/'
\* turned into '-'>-<host port>, nginx:alpine on 8088 gives
\* dock2tauri-nginx-alpine-8088, and once set the name never changes.
dashed(img) == [ i \in 1..Len(img) |-> IF img[i] \in {":", "/"} THEN "-" ELSE img[i] ]

C16_Format ==
    /\ pc # "main" => container_name # None
    /\ container_name # None =>
          container_name = <<"d", "o", "c", "k", "2", "t", "a", "u", "r", "i", "-">>
                              \o dashed(image) \o <<"-">> \o str(host_port)
    /\ (container_name # None /\ image = nginx_alpine /\ host_port = 8088) =>
          container_name = <<"d", "o", "c", "k", "2", "t", "a", "u", "r", "i", "-",
                             "n", "g", "i", "n", "x", "-",
                             "a", "l", "p", "i", "n", "e", "-", "8", "0", "8", "8">>

C16_InstanceName ==
    /\ []C16_Format
    /\ [][container_name # None => container_name' = container_name]_vars

C16_Witness ==
    /\ pc = "exited"
    /\ image = r_w_1
    /\ host_port = 80
    /\ container_name = <<"d", "o", "c", "k", "2", "t", "a", "u", "r", "i", "-",
                          "r", "-", "w", "-", "1", "-", "8", "0">>

\* C17 (as claimed): whatever the image reference, the derived instance
\* name is made of alphanumerics and the separators '-', '_' and '.' only.
SafeChars == Alnum \cup {"-", "_", "."}

C17_NameIsSafe ==
    container_name # None =>
        \A i \in 1..Len(container_name) : container_name[i] \in SafeChars

\* C18: the document update_tauri_config() writes depends on the request
\* only: its build.devUrl is http://localhost:<host port> (8088 in the
\* nginx:alpine example), it has the productName, build and app sections,
\* and it is the same document whatever the files and containers found.
written == <<"update_tauri_config", "written">> \in events
fresh_config == pc = "launch_tauri" /\ written

C18_Document(d) ==
    /\ {"productName", "build", "app"} \subseteq DOMAIN d
    /\ d.productName # <<>>
    /\ "devUrl" \in DOMAIN d.build
    /\ d.build.devUrl = <<"http://localhost:">> \o str(host_port)
    /\ host_port = 8088 => d.build.devUrl = <<"http://localhost:", "8", "0", "8", "8">>
    /\ d.app.windows # <<>>
    /\ d = TauriConfig(image, host_port)

C18_ConfigIsPureFunction ==
    fresh_config => (Cardinality(config_file) = 1 /\ \A d \in config_file : C18_Document(d))

C18_Witness ==
    /\ fresh_config
    /\ image = nginx_alpine
    /\ host_port = 8088
    /\ config0 = {UserConfig}
    /\ \E d \in config_file : d.build.devUrl = <<"http://localhost:", "8", "0", "8", "8">>

\* C19: the cargo command is `cargo tauri build --target <target>` with
\* --build and a target, `cargo tauri build` with --build alone and
\* `cargo tauri dev` without --build whatever the target; it is run at most
\* once; and when the run is over after a completed release build, the
\* backup held at that time is back in the config file.
cargo_cmds == { i \in 1..Len(cmds) : cmds[i][1] = "cargo" }
built == <<"launch_tauri", "ok">> \in events

C19_Argv(c) ==
    /\ (build_release /\ build_target # None) =>
          c = <<"cargo", "tauri", "build", "--target", build_target>>
    /\ (build_release /\ build_target = None) => c = <<"cargo", "tauri", "build">>
    /\ ~build_release => c = <<"cargo", "tauri", "dev">>

C19_RestoredAfterBuild ==
    (run_over /\ build_release /\ built /\ ~cleanup_raised) =>
        /\ backup_file = {}
        /\ config0 # {} => config_file = config0
        /\ (config0 = {} /\ backup0 # {}) => config_file = backup0

C19_ModeSelection ==
    /\ Cardinality(cargo_cmds) <= 1
    /\ \A i \in cargo_cmds : C19_Argv(cmds[i])
    /\ built => cargo_cmds # {}
    /\ C19_RestoredAfterBuild

C19_Witness ==
    /\ pc = "exited"
    /\ built
    /\ build_release
    /\ build_target = msvc
    /\ \E i \in cargo_cmds : cmds[i] = <<"cargo", "tauri", "build", "--target", msvc>>
    /\ config0 = {UserConfig}
    /\ config_file = {UserConfig}
    /\ backup_file = {}

\* C20 (as claimed): a request with a host or container port outside
\* 1..65535 gets no further than the dependency check: nothing is
\* reclaimed, no container is started and no configuration is written.
ports_valid == host_port \in 1..65535 /\ container_port \in 1..65535

C20_InvalidRequestRejected ==
    ~ports_valid =>
        /\ pc \notin (Phases \ {"check_dependencies"})
        /\ cmds = <<>>
        /\ ~update_returned

\* C21 (as claimed): launch_tauri() is reached, and cargo is run, only when
\* update_tauri_config() of this run wrote the configuration; a failed
\* write is never followed by the packaging phase.
C21_PackagingOnlyAfterWrite ==
    (pc = "launch_tauri" \/ cargo_cmds # {}) => (written /\ ~write_failed)

\* C22: run() goes through dependency check, port reclaim, instance start,
\* readiness poll, config write, packaging and teardown in that order, never
\* back to an earlier phase, leaving the order only to go to teardown; when
\* launch_container() failed, nothing was polled, backed up, written or
\* packaged, no command follows the docker run, and only teardown follows.
Order == <<"main", "check_dependencies", "stop_existing_containers",
           "launch_container", "wait_for_service", "update_tauri_config",
           "launch_tauri", "cleanup", "returned", "exited">>
position(p) == CHOOSE i \in 1..Len(Order) : Order[i] = p

C22_Step ==
    pc' # pc =>
        /\ position(pc') > position(pc)
        /\ (pc \in Phases /\ pc' # "cleanup") => position(pc') = position(pc) + 1
        /\ pc = "launch_tauri" => pc' = "cleanup"
        /\ pc = "cleanup" => (pc' = "returned" /\ cleanups = 0 /\ cleanups' = 1)

C22_AfterLaunchFailure ==
    launch_failed =>
        /\ pc \in {"cleanup", "returned", "exited"}
        /\ ~ready /\ ~timed_out /\ attempt = 0
        /\ ~update_returned
        /\ cargo_cmds = {}
        /\ cmds # <<>> /\ cmds[Len(cmds)][1] = "docker run"
        /\ cleanups = 0 => (backup_file = backup0 /\ config_file = config0)

C22_PhaseOrder ==
    /\ [](pc \in { Order[i] : i \in 1..Len(Order) } /\ C22_AfterLaunchFailure)
    /\ [][C22_Step]_vars

C22_Witness ==
    /\ pc = "exited"
    /\ launch_failed
    /\ cleanups = 1
    /\ exit_code = 1
    /\ containers["c_new"] = "Absent"
    /\ config0 = {UserConfig}
    /\ config_file = {UserConfig}
    /\ backup_file = {}

\* C23: the backup path holds at most one document; a call of
\* update_tauri_config() that found a config file and got past the copy
\* leaves in the backup exactly what the config file held just before the
\* call, whatever the backup held; without a config file the backup is left
\* alone; and cleanup() never adds a version to the backup.
copied == pc = "update_tauri_config" /\ (update_returned' \/ backup_file' # backup_file)

C23_Step ==
    /\ (copied /\ config_file # {}) => backup_file' = config_file
    /\ (pc = "update_tauri_config" /\ config_file = {}) => backup_file' = backup_file
    /\ cleanup_step => backup_file' \in {{}, backup_file}

C23_SingleSlotBackup ==
    /\ [](Cardinality(backup_file) <= 1)
    /\ [][C23_Step]_vars

C23_Witness ==
    /\ pc = "launch_tauri"
    /\ backup0 = {StaleBackup}
    /\ config0 = {UserConfig}
    /\ backup_file = {UserConfig}
    /\ written
====
